---- MODULE Spec2Model ----
(***************************************************************************)
(* The UDP telemetry bridge of the phpVMS client (src/udp_bridge.py) and   *)
(* the part of the main window that creates, starts and stops it           *)
(* (src/phpvms_ui_client.py).                                              *)
(*                                                                         *)
(* Threads: the caller threads that use the public API of UdpBridge, and   *)
(* the worker threads that UdpBridge.start() creates to run _run().  Every *)
(* `with self._lock:` block of a worker is two steps (acquire, then body   *)
(* and release); a caller's locked block is one step taken while the lock  *)
(* is free.  A label "Lnnn" is line nnn of src/udp_bridge.py.              *)
(***************************************************************************)
EXTENDS Integers, Sequences, FiniteSets, TLC

\* ------------------------------------------------------------------ bounds
\* datagrams delivered to the port in one behaviour of Spec and SpecPackets
MaxPackets == 2
\* datagrams delivered in one behaviour of SpecLifecycle
LifePackets == 1
\* worker threads created in one behaviour of Spec and SpecLifecycle
MaxThreads == 3
\* worker threads created in one behaviour of SpecPackets
PacketThreads == 1
MaxWorkers == 4
RaceThreads == 2
RacePackets == 2
\* UdpBridge instances constructed in one behaviour, all on the same port
MaxBridges == 2
\* the rolling log's cap, _max_log_lines (500 in the source), scaled down
max_log_lines == 3

Bridges == 1..MaxBridges
Threads == 1..MaxThreads
\* the Qt main thread, and another thread that uses the same instance
Callers == {"ui", "other"}

\* ------------------------------------------------------------------ values
\* Python None for the Optional[int] / Optional[float] attributes
NoneInt == 0
NoThread == 0
Free == 0

\* a position dict; a key that is absent (pos.get(k) is None) holds NoneInt.
\* heading, gs and sim_time are read and stored exactly like altitude.
NoPosition == [kind |-> "none", lat |-> NoneInt, lon |-> NoneInt, altitude |-> NoneInt]
PosDict(la, lo, al) == [kind |-> "dict", lat |-> la, lon |-> lo, altitude |-> al]

\* The datagrams: json says how the bytes decode ("bad": not UTF-8 JSON,
\* "nonobj": JSON that is no object, "obj": a JSON object); for an object,
\* pirep_id is "none" (absent or null), "int" (the integer 1) or "numstr" (the
\* string "1"), status is "None" or a phase code, position is NoPosition or a dict,
\* fuel is the fuel reading of the payload or NoFuel.
NoFuel == -1
FuelReading == 5
PayloadPid == 1
ProvidedPid == 2
Datagrams ==
    {[json |-> "bad", pirep_id |-> "none", status |-> "None", position |-> NoPosition, fuel |-> NoFuel],
     [json |-> "nonobj", pirep_id |-> "none", status |-> "None", position |-> NoPosition, fuel |-> NoFuel],
     [json |-> "obj", pirep_id |-> "none", status |-> "ENR", position |-> NoPosition, fuel |-> NoFuel],
     [json |-> "obj", pirep_id |-> "none", status |-> "None", position |-> PosDict(1, 1, 1), fuel |-> NoFuel],
     [json |-> "obj", pirep_id |-> "none", status |-> "None", position |-> PosDict(NoneInt, NoneInt, 3), fuel |-> NoFuel],
     [json |-> "obj", pirep_id |-> "int", status |-> "ENR", position |-> NoPosition, fuel |-> FuelReading],
     [json |-> "obj", pirep_id |-> "int", status |-> "None", position |-> PosDict(1, 1, 1), fuel |-> NoFuel],
     [json |-> "obj", pirep_id |-> "int", status |-> "None", position |-> PosDict(NoneInt, NoneInt, 3), fuel |-> NoFuel],
     [json |-> "obj", pirep_id |-> "numstr", status |-> "None", position |-> PosDict(2, 2, NoneInt), fuel |-> NoFuel]}
\* one datagram for each way through _handle_packet
LifeDatagrams ==
    {[json |-> "bad", pirep_id |-> "none", status |-> "None", position |-> NoPosition, fuel |-> NoFuel],
     [json |-> "obj", pirep_id |-> "none", status |-> "ENR", position |-> NoPosition, fuel |-> NoFuel],
     [json |-> "obj", pirep_id |-> "int", status |-> "None", position |-> PosDict(1, 1, 1), fuel |-> NoFuel]}
\* a datagram json.loads rejects: the shortest way through _handle_packet
RaceDatagrams ==
    {[json |-> "bad", pirep_id |-> "none", status |-> "None", position |-> NoPosition, fuel |-> NoFuel]}
NoData == [json |-> "nodata", pirep_id |-> "none", status |-> "None", position |-> NoPosition, fuel |-> NoFuel]

\* what the pirep_id_provider does when called: returns None, returns an id,
\* or raises / returns something int() rejects
ProviderResults == {"none", "id", "raise"}

NoSnap == [taken |-> FALSE]

\* a call the worker makes out of the bridge while it handles a datagram:
\* the provider, the FlightProgressTracker constructor, a tracker method
ExternalCall(op) == [op |-> op, fuel_used |-> NoFuel]

VARIABLES
    bridge,     \* bridge[b]: the attributes of UdpBridge instance b
    wk,         \* wk[t]: worker thread t (its bridge, position in _run, socket, locals)
    ui,         \* ui[c]: caller thread c (its position in start()/stop(), ...)
    cur,        \* MainWindow._udp_bridge: the instance the callers use
    sent,       \* datagrams delivered so far; also the clock read by time.time()
    win         \* MainWindow: client, active PIREP id, progress indicator, ApiWorkers

vars == <<bridge, wk, ui, cur, sent, win>>

\* ------------------------------------------------------------------ helpers
\* the cap keeps the first lines and drops the new one
AppendLogDropNewest(log, line) ==
    IF Len(log) >= max_log_lines THEN log ELSE Append(log, line)

\* UdpBridge._append_log: append, then keep the last _max_log_lines lines
append_log(log, line) ==
    LET l == Append(log, line)
    IN  IF Len(l) > max_log_lines
        THEN SubSeq(l, Len(l) - max_log_lines + 1, Len(l))
        ELSE l

\* threading.Thread.is_alive()
is_alive(t) == t # NoThread /\ wk[t].pc \notin {"unborn", "done"}

\* `self._thread and self._thread.is_alive()`
ThreadAlive(b) == is_alive(bridge[b].thread)

AliveWorkers(b) == {t \in Threads : wk[t].bridge = b /\ is_alive(t)}

\* the port is taken while some socket is bound to it (no SO_REUSEADDR is set)
PortInUse == \E t \in Threads : wk[t].sock = "bound"

NumThreads == Cardinality({t \in Threads : wk[t].pc # "unborn"})

\* {k: pos.get(k) for k in ("lat", "lon", "altitude", ...)}
StoredPosition(pos) == PosDict(pos.lat, pos.lon, pos.altitude)

\* ------------------------------------------------------------------ initial state
\* UdpBridge.__init__
NewBridge ==
    [thread |-> NoThread, stop_evt |-> FALSE, lock |-> Free, trackers |-> {},
     running |-> FALSE, packets_ok |-> 0, packets_err |-> 0,
     last_packet_time |-> NoneInt, last_error |-> "None", last_pirep_id |-> NoneInt,
     last_status |-> "None", last_position |-> NoPosition, log |-> <<>>]

NoWorker ==
    [bridge |-> 0, pc |-> "unborn", sock |-> "none", data |-> NoData,
     pirep_id |-> NoneInt, now |-> NoneInt, calls |-> {}]

\* self: the instance whose method the caller is in
IdleCaller == [pc |-> "idle", self |-> 0, restart |-> FALSE, snap |-> NoSnap,
               joining |-> NoThread]

\* ApiWorker objects MainWindow._workers can hold at once
Workers == 1..MaxWorkers

\* ApiWorker.operation, src/phpvms_ui_client.py L62-86
Operations == {"login", "pireps", "airports", "preload"}

NoApiWorker == [operation |-> "none", state |-> "free"]

\* the PirepWorkflowManager call a handler of the main window made, and whether
\* it raised
WorkflowCall(op, raised) == [op |-> op, raised |-> raised]
NoCall == WorkflowCall("none", FALSE)

\* MainWindow.__init__, src/phpvms_ui_client.py L904-910, L991, L1023
NewWindow ==
    [client |-> FALSE, active_pirep_id |-> NoneInt, inflight_ops |-> 0,
     progress_visible |-> FALSE, workers |-> [k \in Workers |-> NoApiWorker],
     call |-> NoCall]

Init ==
    /\ win = NewWindow
    /\ bridge = [b \in Bridges |-> NewBridge]
    /\ wk = [t \in Threads |-> NoWorker]
    /\ ui = [c \in Callers |-> IdleCaller]
    /\ cur = 1
    /\ sent = 0

\* ------------------------------------------------------------------ state updates
\* the locked blocks of _run and _handle_packet, as functions of the bridge record

\* L113-115
OnListening(br) ==
    [br EXCEPT !.running = TRUE, !.log = append_log(br.log, "listening")]

\* the bind failure is not recorded
OnBindFailedSilent(br) == [br EXCEPT !.running = FALSE]

\* L117-120
OnBindFailed(br) ==
    [br EXCEPT !.last_error = "Bind failed",
               !.log = append_log(br.log, "Bind failed"),
               !.running = FALSE]

\* the handler gives up: the error also marks the bridge as not running
OnLoopErrorStops(br) ==
    [br EXCEPT !.packets_err = @ + 1, !.last_error = "ERR", !.running = FALSE]

\* L132-135: the handler of whatever escapes _handle_packet
OnLoopError(br) ==
    [br EXCEPT !.packets_err = @ + 1,
               !.last_error = "ERR",
               !.log = append_log(br.log, "ERR")]

\* the worker ends without clearing running
OnStoppedKeepsRunning(br) ==
    [br EXCEPT !.log = append_log(br.log, "stopped")]

\* L139-141
OnStopped(br) ==
    [br EXCEPT !.running = FALSE, !.log = append_log(br.log, "stopped")]

\* the decode error also forgets the last status
OnDecodeErrorForgets(br) ==
    [br EXCEPT !.packets_err = @ + 1,
               !.last_error = "JSON decode error",
               !.last_status = "None",
               !.log = append_log(br.log, "JSON decode error")]

\* L148-151
OnDecodeError(br) ==
    [br EXCEPT !.packets_err = @ + 1,
               !.last_error = "JSON decode error",
               !.log = append_log(br.log, "JSON decode error")]

\* L170-174: `payload.get("status") or self._last_status`; `payload.get("position")
\* or {}` is a dict also when the datagram has no position, and is then stored
\* with every key None
ApplyNoPirep(br, d) ==
    [br EXCEPT !.last_status = IF d.status # "None" THEN d.status ELSE @,
               !.last_position = StoredPosition(d.position)]

\* a datagram without a PIREP id counted as an error
CountNoPirepAsError(br, now) ==
    [br EXCEPT !.packets_err = @ + 1,
               !.last_packet_time = now,
               !.log = append_log(br.log, "OK: no active PIREP")]

\* L176-179
CountNoPirep(br, now) ==
    [br EXCEPT !.packets_ok = @ + 1,
               !.last_packet_time = now,
               !.log = append_log(br.log, "OK: no active PIREP")]

\* the error is counted and logged but not kept in last_error
OnSendPositionErrorSilent(br) ==
    [br EXCEPT !.packets_err = @ + 1,
               !.log = append_log(br.log, "send_position")]

\* L213-216
OnSendPositionError(br) ==
    [br EXCEPT !.packets_err = @ + 1,
               !.last_error = "send_position",
               !.log = append_log(br.log, "send_position")]

\* L218-221
StorePosition(br, pos) ==
    [br EXCEPT !.last_position = StoredPosition(pos)]

\* L235-244
SuccessAccounting(br, pid, now) ==
    [br EXCEPT !.packets_ok = @ + 1,
               !.last_packet_time = now,
               !.last_pirep_id = pid,
               !.log = append_log(br.log, "OK")]

\* status_snapshot(), L92-105
Snapshot(br) ==
    [taken |-> TRUE, running |-> br.running,
     packets_ok |-> br.packets_ok, packets_err |-> br.packets_err,
     last_packet_time |-> br.last_packet_time, last_error |-> br.last_error,
     last_pirep_id |-> br.last_pirep_id, last_status |-> br.last_status,
     last_position |-> br.last_position, log |-> br.log]

\* ------------------------------------------------------------------ the worker, _run
\* where a worker goes once it holds the lock
LockedBody ==
    [L113 |-> "L114", L117 |-> "L118", L132 |-> "L133", L139 |-> "L140",
     L148 |-> "L149", L170 |-> "L171", L176 |-> "L177", L213 |-> "L214",
     L218 |-> "L219", L235 |-> "L236"]

AcquirePcs == DOMAIN LockedBody

\* the worker is inside tracker.send_position, an upstream HTTP call of unbounded
\* duration; every other step of the worker takes less than the join timeout
InUpstreamCall(t) == wk[t].pc = "L204"

Goto(t, pc) == wk' = [wk EXCEPT ![t].pc = pc]

\* back to the loop test, the datagram's locals dropped
EndPacket(t) ==
    wk' = [wk EXCEPT ![t].pc = "L124", ![t].data = NoData,
                     ![t].pirep_id = NoneInt, ![t].now = NoneInt, ![t].calls = {}]

\* a block that does not release the lock
LockedNotReleased(t, upd) ==
    bridge' = [bridge EXCEPT ![wk[t].bridge] = upd]

\* a locked block: apply `upd` to the bridge and release the lock
Locked(t, upd) ==
    bridge' = [bridge EXCEPT ![wk[t].bridge] = [upd EXCEPT !.lock = Free]]

\* L109-112: socket(), bind(), settimeout()
\* bind() on a port that may be shared
WBindShared(t) ==
    /\ wk[t].pc = "L109"
    /\ wk' = [wk EXCEPT ![t].pc = "L113", ![t].sock = "bound"]
    /\ UNCHANGED <<bridge, ui, cur, sent, win>>

WBind(t) ==
    /\ wk[t].pc = "L109"
    /\ IF PortInUse
       THEN wk' = [wk EXCEPT ![t].pc = "L117", ![t].sock = "unbound"]
       ELSE wk' = [wk EXCEPT ![t].pc = "L113", ![t].sock = "bound"]
    /\ UNCHANGED <<bridge, ui, cur, sent, win>>

\* `with self._lock:` entered
WAcquire(t) ==
    /\ wk[t].pc \in AcquirePcs
    /\ bridge[wk[t].bridge].lock = Free
    /\ bridge' = [bridge EXCEPT ![wk[t].bridge].lock = t]
    /\ Goto(t, LockedBody[wk[t].pc])
    /\ UNCHANGED <<ui, cur, sent, win>>

\* L114-115
WListening(t) ==
    /\ wk[t].pc = "L114"
    /\ Locked(t, OnListening(bridge[wk[t].bridge]))
    /\ Goto(t, "L124")
    /\ UNCHANGED <<ui, cur, sent, win>>

\* L118-120
WBindFailed(t) ==
    /\ wk[t].pc = "L118"
    /\ Locked(t, OnBindFailed(bridge[wk[t].bridge]))
    /\ Goto(t, "L121")
    /\ UNCHANGED <<ui, cur, sent, win>>

\* L121-122
WCloseUnbound(t) ==
    /\ wk[t].pc = "L121"
    /\ wk' = [wk EXCEPT ![t].pc = "done", ![t].sock = "closed"]
    /\ UNCHANGED <<bridge, ui, cur, sent, win>>

\* the loop test does not look at the stop event
WLoopTestIgnoresStop(t) ==
    /\ wk[t].pc = "L124"
    /\ Goto(t, "L127")
    /\ UNCHANGED <<bridge, ui, cur, sent, win>>

\* L124
WLoopTest(t) ==
    /\ wk[t].pc = "L124"
    /\ Goto(t, IF bridge[wk[t].bridge].stop_evt THEN "L137" ELSE "L127")
    /\ UNCHANGED <<bridge, ui, cur, sent, win>>

\* L127-129: recvfrom times out
WRecvTimeout(t) ==
    /\ wk[t].pc = "L127"
    /\ Goto(t, "L124")
    /\ UNCHANGED <<bridge, ui, cur, sent, win>>

\* L127, L130, L144: recvfrom returns datagram d; _handle_packet reads the clock
WRecv(t, d, n) ==
    /\ wk[t].pc = "L127"
    /\ sent < n
    /\ sent' = sent + 1
    /\ wk' = [wk EXCEPT ![t].pc = "L146", ![t].data = d, ![t].now = sent + 1]
    /\ UNCHANGED <<bridge, ui, cur, win>>

\* L145-158: json.loads, payload.get("pirep_id"), int(pirep_id).  A JSON value that
\* is no object has no .get: the AttributeError leaves _handle_packet.
DecodeTarget(d) ==
    CASE d.json = "bad" -> "L148"
      [] d.json = "nonobj" -> "L132"
      [] d.json = "obj" /\ d.pirep_id = "none" -> "L163"
      [] OTHER -> "L182"

WDecode(t) ==
    /\ wk[t].pc = "L146"
    /\ wk' = [wk EXCEPT ![t].pc = DecodeTarget(wk[t].data),
                        ![t].pirep_id = IF DecodeTarget(wk[t].data) = "L182"
                                        THEN PayloadPid ELSE NoneInt]
    /\ UNCHANGED <<bridge, ui, cur, sent, win>>

\* L161-169: the provider is asked
WProvider(t, r) ==
    /\ wk[t].pc = "L163"
    /\ IF r = "id"
       THEN wk' = [wk EXCEPT ![t].pc = "L182", ![t].pirep_id = ProvidedPid,
                             ![t].calls = @ \cup {ExternalCall("pirep_id_provider")}]
       ELSE wk' = [wk EXCEPT ![t].pc = "L170", ![t].pirep_id = NoneInt,
                             ![t].calls = @ \cup {ExternalCall("pirep_id_provider")}]
    /\ UNCHANGED <<bridge, ui, cur, sent, win>>

\* L171-174
WNoPirepState(t) ==
    /\ wk[t].pc = "L171"
    /\ Locked(t, ApplyNoPirep(bridge[wk[t].bridge], wk[t].data))
    /\ Goto(t, "L176")
    /\ UNCHANGED <<ui, cur, sent, win>>

\* L177-180
WNoPirepCount(t) ==
    /\ wk[t].pc = "L177"
    /\ Locked(t, CountNoPirep(bridge[wk[t].bridge], wk[t].now))
    /\ EndPacket(t)
    /\ UNCHANGED <<ui, cur, sent, win>>

\* L200-201
AfterTracker(d) == IF d.position.kind = "dict" THEN "L203" ELSE "L235"

\* L182, _get_tracker L246-250: a known id needs no call; otherwise
\* FlightProgressTracker(api_client, pirep_id) returns a tracker or raises, and
\* what it raises leaves _handle_packet
WGetTracker(t, ok) ==
    /\ wk[t].pc = "L182"
    /\ LET b == wk[t].bridge
       IN  IF wk[t].pirep_id \in bridge[b].trackers
           THEN /\ ok
                /\ Goto(t, AfterTracker(wk[t].data))
                /\ UNCHANGED bridge
           ELSE IF ok
                THEN /\ bridge' = [bridge EXCEPT ![b].trackers = @ \cup {wk[t].pirep_id}]
                     /\ wk' = [wk EXCEPT ![t].pc = AfterTracker(wk[t].data),
                                         ![t].calls = @ \cup {ExternalCall("FlightProgressTracker")}]
                ELSE /\ wk' = [wk EXCEPT ![t].pc = "L132",
                                         ![t].calls = @ \cup {ExternalCall("FlightProgressTracker")}]
                     /\ UNCHANGED bridge
    /\ UNCHANGED <<ui, cur, sent, win>>

\* L203-206: float(pos["lat"]), float(pos["lon"]) raise when the key is absent or None
PositionArgsTarget(pos) ==
    IF pos.lat = NoneInt \/ pos.lon = NoneInt THEN "L213" ELSE "L204"

WPositionArgs(t) ==
    /\ wk[t].pc = "L203"
    /\ Goto(t, PositionArgsTarget(wk[t].data.position))
    /\ UNCHANGED <<bridge, ui, cur, sent, win>>

\* the call is made outside the try block: what it raises leaves _handle_packet
SendPositionUncaught(ok) == IF ok THEN "L218" ELSE "L132"

\* L204-211: tracker.send_position returns or raises
SendPositionTarget(ok) == IF ok THEN "L218" ELSE "L213"

WSendPosition(t, ok) ==
    /\ wk[t].pc = "L204"
    /\ wk' = [wk EXCEPT ![t].pc = SendPositionTarget(ok),
                        ![t].calls = @ \cup {ExternalCall("send_position")}]
    /\ UNCHANGED <<bridge, ui, cur, sent, win>>

\* the except clause also stores the position
WSendPositionFailedStores(t) ==
    /\ wk[t].pc = "L214"
    /\ Locked(t, StorePosition(OnSendPositionError(bridge[wk[t].bridge]), wk[t].data.position))
    /\ Goto(t, "L235")
    /\ UNCHANGED <<ui, cur, sent, win>>

\* L214-216
WSendPositionFailed(t) ==
    /\ wk[t].pc = "L214"
    /\ Locked(t, OnSendPositionError(bridge[wk[t].bridge]))
    /\ Goto(t, "L235")
    /\ UNCHANGED <<ui, cur, sent, win>>

\* L219-221
WStorePosition(t) ==
    /\ wk[t].pc = "L219"
    /\ Locked(t, StorePosition(bridge[wk[t].bridge], wk[t].data.position))
    /\ Goto(t, "L235")
    /\ UNCHANGED <<ui, cur, sent, win>>

\* L236-244
WSuccess(t) ==
    /\ wk[t].pc = "L236"
    /\ Locked(t, SuccessAccounting(bridge[wk[t].bridge], wk[t].pirep_id, wk[t].now))
    /\ EndPacket(t)
    /\ UNCHANGED <<ui, cur, sent, win>>

\* L149-152
WDecodeFailed(t) ==
    /\ wk[t].pc = "L149"
    /\ Locked(t, OnDecodeError(bridge[wk[t].bridge]))
    /\ EndPacket(t)
    /\ UNCHANGED <<ui, cur, sent, win>>

\* L133-135
WLoopError(t) ==
    /\ wk[t].pc = "L133"
    /\ Locked(t, OnLoopError(bridge[wk[t].bridge]))
    /\ EndPacket(t)
    /\ UNCHANGED <<ui, cur, sent, win>>

\* the loop is left without closing the socket
WCloseLeavesSocket(t) ==
    /\ wk[t].pc = "L137"
    /\ Goto(t, "L139")
    /\ UNCHANGED <<bridge, ui, cur, sent, win>>

\* L137
WClose(t) ==
    /\ wk[t].pc = "L137"
    /\ wk' = [wk EXCEPT ![t].pc = "L139", ![t].sock = "closed"]
    /\ UNCHANGED <<bridge, ui, cur, sent, win>>

\* L140-141, and the thread ends
WStopped(t) ==
    /\ wk[t].pc = "L140"
    /\ Locked(t, OnStopped(bridge[wk[t].bridge]))
    /\ Goto(t, "done")
    /\ UNCHANGED <<ui, cur, sent, win>>

\* _run once the socket is bound, and _handle_packet
Receive(t, D, n) ==
    \/ WBind(t) \/ WAcquire(t) \/ WListening(t)
    \/ WLoopTest(t) \/ WRecvTimeout(t) \/ (\E d \in D : WRecv(t, d, n))
    \/ WDecode(t) \/ (\E r \in ProviderResults : WProvider(t, r))
    \/ WNoPirepState(t) \/ WNoPirepCount(t)
    \/ (\E ok \in BOOLEAN : WGetTracker(t, ok))
    \/ WPositionArgs(t) \/ (\E ok \in BOOLEAN : WSendPosition(t, ok))
    \/ WSendPositionFailed(t) \/ WStorePosition(t) \/ WSuccess(t)
    \/ WDecodeFailed(t) \/ WLoopError(t) \/ WClose(t) \/ WStopped(t)

\* _run after a failed bind, L116-122
BindFailure(t) == WBindFailed(t) \/ WCloseUnbound(t)

Worker(t, D, n) == Receive(t, D, n) \/ BindFailure(t)

\* ------------------------------------------------------------------ the callers
Call(c, pc) == ui' = [ui EXCEPT ![c].pc = pc]

Return(c) == ui' = [ui EXCEPT ![c].pc = "idle", ![c].self = 0, ![c].restart = FALSE]

\* start() is called on the current instance
CallStart(c) ==
    /\ ui[c].pc = "idle"
    /\ ui' = [ui EXCEPT ![c].pc = "L65", ![c].self = cur]
    /\ UNCHANGED <<bridge, wk, cur, sent, win>>

\* start() without the is_alive() test
StartCheckSkipped(c) ==
    /\ ui[c].pc = "L65"
    /\ Call(c, "L67")
    /\ UNCHANGED <<bridge, wk, cur, sent, win>>

\* L65-66
StartCheck(c) ==
    /\ ui[c].pc = "L65"
    /\ IF ThreadAlive(ui[c].self) THEN Return(c) ELSE Call(c, "L67")
    /\ UNCHANGED <<bridge, wk, cur, sent, win>>

\* start() also resets the counters
StartClearResets(c) ==
    /\ ui[c].pc = "L67"
    /\ bridge' = [bridge EXCEPT ![ui[c].self].stop_evt = FALSE,
                                ![ui[c].self].packets_ok = 0,
                                ![ui[c].self].packets_err = 0]
    /\ Call(c, "L68")
    /\ UNCHANGED <<wk, cur, sent, win>>

\* L67
StartClear(c) ==
    /\ ui[c].pc = "L67"
    /\ bridge' = [bridge EXCEPT ![ui[c].self].stop_evt = FALSE]
    /\ Call(c, "L68")
    /\ UNCHANGED <<wk, cur, sent, win>>

\* L68-69: the new thread is alive when Thread.start() returns
StartThread(c, n) ==
    /\ ui[c].pc = "L68"
    /\ NumThreads < n
    /\ LET t == NumThreads + 1
       IN  /\ wk' = [wk EXCEPT ![t] = [NoWorker EXCEPT !.bridge = ui[c].self, !.pc = "L109"]]
           /\ bridge' = [bridge EXCEPT ![ui[c].self].thread = t]
    /\ Return(c)
    /\ UNCHANGED <<cur, sent, win>>

\* stop() is called on the current instance
CallStop(c) ==
    /\ ui[c].pc = "idle"
    /\ ui' = [ui EXCEPT ![c].pc = "L72", ![c].self = cur]
    /\ UNCHANGED <<bridge, wk, cur, sent, win>>

\* L72
StopSet(c) ==
    /\ ui[c].pc = "L72"
    /\ bridge' = [bridge EXCEPT ![ui[c].self].stop_evt = TRUE]
    /\ Call(c, "L73")
    /\ UNCHANGED <<wk, cur, sent, win>>

\* L73, and L74 reading self._thread: the thread object join() is called on
StopCheck(c) ==
    /\ ui[c].pc = "L73"
    /\ ui' = IF ThreadAlive(ui[c].self)
             THEN [ui EXCEPT ![c].pc = "L74", ![c].joining = bridge[ui[c].self].thread]
             ELSE [ui EXCEPT ![c].pc = "L75"]
    /\ UNCHANGED <<bridge, wk, cur, sent, win>>

\* L74: join() returns because the thread has ended
StopJoined(c) ==
    /\ ui[c].pc = "L74"
    /\ ~is_alive(ui[c].joining)
    /\ ui' = [ui EXCEPT ![c].pc = "L75", ![c].joining = NoThread]
    /\ UNCHANGED <<bridge, wk, cur, sent, win>>

\* L74: join(timeout=2.0) returns with the thread still alive.  A worker that
\* can see the stop event set looks at it at least every 0.5 s (L112, L124) unless
\* it is inside an upstream call, so only then can the 2 s pass.
JoinExpiresAnyTime(c) == TRUE

\* join() without a timeout
JoinNeverExpires(c) == FALSE

JoinCanExpire(c) ==
    \/ InUpstreamCall(ui[c].joining)
    \/ ~bridge[ui[c].self].stop_evt

StopJoinTimeout(c) ==
    /\ ui[c].pc = "L74"
    /\ is_alive(ui[c].joining)
    /\ JoinCanExpire(c)
    /\ ui' = [ui EXCEPT ![c].pc = "L75", ![c].joining = NoThread]
    /\ UNCHANGED <<bridge, wk, cur, sent, win>>

\* L75-76; in _start_udp_bridge the new instance is made next
StopClearRunning(c) ==
    /\ ui[c].pc = "L75"
    /\ bridge[ui[c].self].lock = Free
    /\ bridge' = [bridge EXCEPT ![ui[c].self].running = FALSE]
    /\ IF ui[c].restart THEN Call(c, "L1615") ELSE Return(c)
    /\ UNCHANGED <<wk, cur, sent, win>>

\* status_snapshot() on the current instance, L91-105
StatusSnapshot(c) ==
    /\ ui[c].pc = "idle"
    /\ bridge[cur].lock = Free
    /\ ui' = [ui EXCEPT ![c].pc = "snapshot", ![c].self = cur,
                        ![c].snap = Snapshot(bridge[cur])]
    /\ UNCHANGED <<bridge, wk, cur, sent, win>>

\* the caller is done with the copy it got
SnapshotReturn(c) ==
    /\ ui[c].pc = "snapshot"
    /\ ui' = [ui EXCEPT ![c].pc = "idle", ![c].self = 0, ![c].snap = NoSnap]
    /\ UNCHANGED <<bridge, wk, cur, sent, win>>

\* MainWindow._start_udp_bridge, src/phpvms_ui_client.py L1604-1612, host and port
\* as before: nothing to do while is_running() (L78-80); otherwise stop() the
\* existing instance
RestartBridge(c, n) ==
    /\ ui[c].pc = "idle"
    /\ cur < MaxBridges
    /\ NumThreads < n
    /\ bridge[cur].lock = Free
    /\ ~bridge[cur].running
    /\ ui' = [ui EXCEPT ![c].pc = "L72", ![c].self = cur, ![c].restart = TRUE]
    /\ UNCHANGED <<bridge, wk, cur, sent, win>>

\* src/phpvms_ui_client.py L1614-1628: UdpBridge(...) on the same port, then start()
ConstructBridge(c) ==
    /\ ui[c].pc = "L1615"
    /\ cur < MaxBridges
    /\ cur' = cur + 1
    /\ ui' = [ui EXCEPT ![c].pc = "L65", ![c].self = cur + 1, ![c].restart = FALSE]
    /\ UNCHANGED <<bridge, wk, sent, win>>

\* start() and stop()
Control(c, n) ==
    \/ CallStart(c) \/ StartCheck(c) \/ StartClear(c) \/ StartThread(c, n)
    \/ CallStop(c) \/ StopSet(c) \/ StopCheck(c) \/ StopJoined(c) \/ StopJoinTimeout(c)
    \/ StopClearRunning(c)

\* the status poll
Poll(c) == StatusSnapshot(c) \/ SnapshotReturn(c)

\* the main window replacing its instance
Rebind(c, n) == RestartBridge(c, n) \/ ConstructBridge(c)

\* ------------------------------------------------------------------ the main window
\* src/phpvms_ui_client.py.  Every handler runs to its end on the main thread; the
\* bridge calls of show_main_interface (L1196) and logout (L1565) are the calls of
\* caller "ui" above and touch none of the attributes modelled here.

\* L1662-1673
show_progress(w, show) ==
    IF show
    THEN [w EXCEPT !.inflight_ops = @ + 1, !.progress_visible = TRUE]
    ELSE LET n == IF w.inflight_ops > 0 THEN w.inflight_ops - 1 ELSE w.inflight_ops
         IN  [w EXCEPT !.inflight_ops = IF n <= 0 THEN 0 ELSE n,
                       !.progress_visible = IF n <= 0 THEN FALSE ELSE @]

FreeWorkers(w) == {k \in Workers : w.workers[k].state = "free"}

\* show_progress(True), then _create_worker() (L1087-1098) and worker.start()
StartOperation(w, op) ==
    LET k == CHOOSE k \in FreeWorkers(w) : \A j \in FreeWorkers(w) : k <= j
    IN  [show_progress(w, TRUE) EXCEPT !.workers[k] = [operation |-> op, state |-> "running"]]

\* the worker has emitted its result signal (ApiWorker.run, L88-107)
Delivered(w, k) == [w EXCEPT !.workers[k].state = "delivered"]

Running(k, op) == win.workers[k] = [operation |-> op, state |-> "running"]

\* on_login_requested, L1114-1126; the login widget is shown while no client is
\* set and its button is disabled until the result (L1118, L1131)
OnLoginRequested ==
    /\ ~win.client
    /\ \A k \in Workers : ~Running(k, "login")
    /\ FreeWorkers(win) # {}
    /\ win' = [StartOperation(win, "login") EXCEPT !.call = NoCall]
    /\ UNCHANGED <<bridge, wk, ui, cur, sent>>

\* on_login_result, L1128-1172: on success preload_reference_data (L1256-1263),
\* refresh_airports (L1215-1224) and refresh_pireps (L1198-1213) each start an
\* operation
OnLoginResult(k, success) ==
    /\ Running(k, "login")
    /\ LET w1 == show_progress(Delivered(win, k), FALSE)
           w2 == [w1 EXCEPT !.client = TRUE, !.call = NoCall]
       IN  IF success
           THEN /\ Cardinality(FreeWorkers(w1)) >= 3
                /\ win' = StartOperation(StartOperation(StartOperation(w2, "preload"),
                                                         "airports"), "pireps")
           ELSE win' = [w1 EXCEPT !.call = NoCall]
    /\ UNCHANGED <<bridge, wk, ui, cur, sent>>

\* refresh_pireps, L1198-1213
RefreshPireps ==
    /\ win.client
    /\ FreeWorkers(win) # {}
    /\ win' = [StartOperation(win, "pireps") EXCEPT !.call = NoCall]
    /\ UNCHANGED <<bridge, wk, ui, cur, sent>>

\* refresh_airports, L1215-1224
RefreshAirports ==
    /\ win.client
    /\ FreeWorkers(win) # {}
    /\ win' = [StartOperation(win, "airports") EXCEPT !.call = NoCall]
    /\ UNCHANGED <<bridge, wk, ui, cur, sent>>

\* on_pireps_result, L1286-1317
OnPirepsResult(k) ==
    /\ Running(k, "pireps")
    /\ win' = [show_progress(Delivered(win, k), FALSE) EXCEPT !.call = NoCall]
    /\ UNCHANGED <<bridge, wk, ui, cur, sent>>

\* on_airports_result, L1226-1254
OnAirportsResult(k) ==
    /\ Running(k, "airports")
    /\ win' = [show_progress(Delivered(win, k), FALSE) EXCEPT !.call = NoCall]
    /\ UNCHANGED <<bridge, wk, ui, cur, sent>>

\* on_preload_result, L1265-1284
OnPreloadResult(k) ==
    /\ Running(k, "preload")
    /\ win' = [show_progress(Delivered(win, k), FALSE) EXCEPT !.call = NoCall]
    /\ UNCHANGED <<bridge, wk, ui, cur, sent>>

\* _on_worker_finished, L1100-1112: the finished signal follows the result signal
OnWorkerFinished(k) ==
    /\ win.workers[k].state = "delivered"
    /\ LET n == IF win.inflight_ops > 0 THEN win.inflight_ops - 1 ELSE win.inflight_ops
       IN  win' = [win EXCEPT !.workers[k] = NoApiWorker,
                              !.inflight_ops = IF n <= 0 THEN 0 ELSE n,
                              !.progress_visible = IF n <= 0 THEN FALSE ELSE @,
                              !.call = NoCall]
    /\ UNCHANGED <<bridge, wk, ui, cur, sent>>

\* on_prefile_clicked, L1397-1458: start_flight returns the PIREP or raises
OnPrefileClicked(ok) ==
    /\ win.client
    /\ LET w == show_progress(show_progress(win, TRUE), FALSE)
       IN  win' = [w EXCEPT !.active_pirep_id = IF ok THEN ProvidedPid ELSE @,
                            !.call = WorkflowCall("start_flight", ~ok)]
    /\ UNCHANGED <<bridge, wk, ui, cur, sent>>

\* on_cancel_clicked, L1460-1478: the except clause (L1473-1474) does not return,
\* so L1477 runs whether or not cancel_flight raised
OnCancelClicked(ok) ==
    /\ win.client
    /\ win.active_pirep_id # NoneInt
    /\ LET w == show_progress(show_progress(win, TRUE), FALSE)
       IN  win' = [w EXCEPT !.active_pirep_id = NoneInt,
                            !.call = WorkflowCall("cancel_flight", ~ok)]
    /\ UNCHANGED <<bridge, wk, ui, cur, sent>>

\* on_file_clicked, L1480-1516: returns at L1512 when complete_flight raises
OnFileClicked(ok) ==
    /\ win.client
    /\ win.active_pirep_id # NoneInt
    /\ LET w == show_progress(show_progress(win, TRUE), FALSE)
       IN  win' = [w EXCEPT !.active_pirep_id = IF ok THEN NoneInt ELSE @,
                            !.call = WorkflowCall("complete_flight", ~ok)]
    /\ UNCHANGED <<bridge, wk, ui, cur, sent>>

\* logout, L1562-1582
Logout ==
    /\ win.client
    /\ win' = [win EXCEPT !.client = FALSE, !.active_pirep_id = NoneInt, !.call = NoCall]
    /\ UNCHANGED <<bridge, wk, ui, cur, sent>>

\* `lambda: self._active_pirep_id`, L1616: what the bridge's provider returns
pid_provider == win.active_pirep_id

\* ------------------------------------------------------------------ specifications
\* The main window alone: its handlers and the signals of its ApiWorkers, in any
\* order the event loop can deliver them.
NextWindow ==
    \/ OnLoginRequested
    \/ \E k \in Workers, success \in BOOLEAN : OnLoginResult(k, success)
    \/ RefreshPireps \/ RefreshAirports
    \/ \E k \in Workers : OnPirepsResult(k) \/ OnAirportsResult(k) \/ OnPreloadResult(k)
    \/ \E k \in Workers : OnWorkerFinished(k)
    \/ \E ok \in BOOLEAN : OnPrefileClicked(ok) \/ OnCancelClicked(ok) \/ OnFileClicked(ok)
    \/ Logout

SpecWindow == Init /\ [][NextWindow]_vars

\* The application: the main thread starts, stops, polls and replaces the bridge
\* and runs the handlers of the main window.
Next ==
    \/ \E t \in Threads : Worker(t, Datagrams, MaxPackets)
    \/ Control("ui", MaxThreads)
    \/ Poll("ui")
    \/ Rebind("ui", MaxThreads)
    \/ NextWindow

Spec == Init /\ [][Next]_vars

\* One instance, started, stopped and polled by the main thread, receiving
\* every shape of datagram.  Nothing else holds the port, so no bind fails.
NextPackets ==
    \/ \E t \in Threads : Receive(t, Datagrams, MaxPackets)
    \/ Control("ui", PacketThreads)
    \/ Poll("ui")

SpecPackets == Init /\ [][NextPackets]_vars

\* The life cycle: the main thread starts, stops and replaces the bridge while
\* few datagrams arrive.
NextLifecycle ==
    \/ \E t \in Threads : Worker(t, LifeDatagrams, LifePackets)
    \/ Control("ui", MaxThreads)
    \/ Rebind("ui", MaxThreads)

SpecLifecycle == Init /\ [][NextLifecycle]_vars

\* The steps that finish a call of start(), stop() or _start_udp_bridge once it
\* has been entered: the caller's thread keeps running
Finish(c, n) ==
    \/ StartCheck(c) \/ StartClear(c) \/ StartThread(c, n)
    \/ StopSet(c) \/ StopCheck(c) \/ StopJoined(c) \/ StopJoinTimeout(c)
    \/ StopClearRunning(c) \/ ConstructBridge(c)

\* The life cycle with its threads scheduled: every worker thread that can take
\* a step eventually takes one (recvfrom returns within its 0.5 s timeout, the
\* lock is held for a block at a time, an upstream call returns or raises), and
\* a call that was entered runs to its return.  Whether and when start() and
\* stop() are called, and whether datagrams arrive, is left open.
SpecLive ==
    /\ SpecLifecycle
    /\ \A t \in Threads : WF_vars(Worker(t, LifeDatagrams, LifePackets))
    /\ WF_vars(Finish("ui", MaxThreads))

\* One instance on a free port, started and stopped by the main thread, with
\* its threads scheduled as in SpecLive, except that an upstream call need never
\* return: a worker inside tracker.send_position may stay there for ever.
NextBlocking ==
    \/ \E t \in Threads : Receive(t, LifeDatagrams, LifePackets)
    \/ Control("ui", PacketThreads)

SpecBlocking ==
    /\ Init /\ [][NextBlocking]_vars
    /\ \A t \in Threads :
          WF_vars(~InUpstreamCall(t) /\ Receive(t, LifeDatagrams, LifePackets))
    /\ WF_vars(Finish("ui", PacketThreads))

\* One instance on a free port as in SpecBlocking, with every upstream call
\* returning or raising in the end.
SpecStopping ==
    /\ Init /\ [][NextBlocking]_vars
    /\ \A t \in Threads : WF_vars(Receive(t, LifeDatagrams, LifePackets))
    /\ WF_vars(Finish("ui", PacketThreads))

\* One instance whose start() and stop() are called from two threads at once,
\* receiving datagrams that fail to decode (L145-152): no upstream call is made,
\* and a join can expire only because another caller's start() cleared the event.
RaceWorker(t) ==
    \/ WBind(t) \/ WAcquire(t) \/ WListening(t) \/ BindFailure(t)
    \/ WLoopTest(t) \/ WRecvTimeout(t) \/ (\E d \in RaceDatagrams : WRecv(t, d, RacePackets))
    \/ WDecode(t) \/ WDecodeFailed(t) \/ WClose(t) \/ WStopped(t)

NextRace ==
    \/ \E t \in Threads : RaceWorker(t)
    \/ Control("ui", RaceThreads)
    \/ Control("other", RaceThreads)

SpecRace == Init /\ [][NextRace]_vars

\* ------------------------------------------------------------------ types
TypeOK ==
    /\ cur \in Bridges
    /\ sent \in 0..MaxPackets
    /\ \A b \in Bridges :
        /\ bridge[b].thread \in Threads \cup {NoThread}
        /\ bridge[b].lock \in Threads \cup {Free}
        /\ bridge[b].packets_ok \in 0..MaxPackets
        /\ bridge[b].packets_err \in 0..MaxPackets
        /\ Len(bridge[b].log) <= max_log_lines
    /\ \A t \in Threads : wk[t].sock \in {"none", "bound", "unbound", "closed"}

\* ------------------------------------------------------------------ claims
\* thread t took the step
Stepped(t) == wk'[t] # wk[t]

\* the step ends the handling of t's datagram
EndsPacket(t) == wk[t].data # NoData /\ wk'[t].data = NoData

\* the step is c's return from stop()
StopReturns(c) == ui[c].pc = "L75" /\ ui'[c].pc # "L75"

\* the step is c's return from start()
StartReturns(c) == ui[c].pc \in {"L65", "L68"} /\ ui'[c].pc = "idle"

\* no start() or stop() is executing on instance b
NoControlCall(b) ==
    \A c \in Callers :
        ui[c].self = b => ui[c].pc \notin {"L65", "L67", "L68", "L72", "L73", "L74", "L75", "L1615"}

\* the worker is inside an upstream call or past it, finishing its datagram and
\* leaving at the next loop test
OnItsWayOut(t) ==
    \/ wk[t].pc \in {"L204", "L213", "L214", "L218", "L219", "L235", "L236"}
    \/ wk[t].pc = "L124" /\ bridge[wk[t].bridge].stop_evt
    \/ wk[t].pc \in {"L137", "L139", "L140"}

\* C1: every well-formed JSON-object datagram adds exactly 1 to packets_ok and
\* nothing to packets_err, whatever fields it carries and whether or not a PIREP
\* id is resolved for it.
C1_WellFormedCountsOkOnly ==
    [][\A t \in Threads :
         (wk[t].data.json = "obj" /\ Stepped(t)) =>
            LET b == wk[t].bridge
            IN  /\ bridge'[b].packets_err = bridge[b].packets_err
                /\ bridge'[b].packets_ok =
                      bridge[b].packets_ok + (IF EndsPacket(t) THEN 1 ELSE 0)]_vars

\* C2: a datagram that is not UTF-8 JSON adds 1 to packets_err and nothing to
\* packets_ok, the worker goes back to its loop, and a valid datagram handled
\* after it adds 1 to packets_ok.
C2_MalformedThenValid ==
    [][\A t \in Threads :
         LET b == wk[t].bridge
         IN  /\ (wk[t].data.json = "bad" /\ EndsPacket(t)) =>
                   /\ bridge'[b].packets_err = bridge[b].packets_err + 1
                   /\ bridge'[b].packets_ok = bridge[b].packets_ok
                   /\ wk'[t].pc = "L124"
             /\ (wk[t].data.json = "obj" /\ EndsPacket(t)
                    /\ bridge[b].last_error = "JSON decode error") =>
                   bridge'[b].packets_ok = bridge[b].packets_ok + 1]_vars

AliveAfter(b) == {t \in Threads : wk'[t].bridge = b /\ wk'[t].pc \notin {"unborn", "done"}}

\* C5: every return of start() leaves exactly one worker of the instance alive
\* (a second start() in a row creates none); no step of stop() creates or
\* replaces a thread, also when none was ever started; every return of stop()
\* leaves running false.
C5_StartStopIdempotent ==
    [][\A c \in Callers :
         LET b == ui[c].self
         IN  /\ StartReturns(c) => Cardinality(AliveAfter(b)) = 1
             /\ (ui[c].pc \in {"L72", "L73", "L74", "L75"} /\ ui'[c] # ui[c]) =>
                   /\ wk' = wk
                   /\ bridge'[b].thread = bridge[b].thread
             /\ StopReturns(c) => ~bridge'[b].running]_vars

\* C5's case: start() is called again while the worker of the previous start()
\* runs and no stop() was called in between
C5_Witness ==
    \E c \in Callers :
        /\ ui[c].pc = "L65"
        /\ ThreadAlive(ui[c].self)
        /\ ~bridge[ui[c].self].stop_evt
        /\ bridge[ui[c].self].running

\* C6: a snapshot shows whole datagrams only: one that shows a stored status or
\* position, or a send_position error, also shows the packets_ok and
\* last_packet_time accounting of the datagram that brought it.
C6_SnapshotShowsWholeDatagrams ==
    \A c \in Callers :
        LET sn == ui[c].snap
        IN  (sn.taken /\ (\/ sn.last_status # "None"
                          \/ sn.last_position # NoPosition
                          \/ sn.last_error = "send_position")) =>
               (sn.packets_ok >= 1 /\ sn.last_packet_time # NoneInt)

\* C7: when tracker.send_position (or the evaluation of its arguments) raises,
\* the worker goes to the handler at L212 and nowhere else; the handler adds 1 to
\* packets_err, records last_error, appends one log line and continues with the
\* success accounting, which adds 1 to packets_ok and returns to the loop.
C7_SendPositionErrorIsolated ==
    [][\A t \in Threads :
         LET b == wk[t].bridge
         IN  /\ (wk[t].pc \in {"L203", "L204"} /\ Stepped(t)) =>
                   /\ wk'[t].pc \in {"L204", "L213", "L218"}
                   /\ bridge' = bridge
             /\ (wk[t].pc = "L214" /\ Stepped(t)) =>
                   /\ bridge'[b].packets_err = bridge[b].packets_err + 1
                   /\ bridge'[b].packets_ok = bridge[b].packets_ok
                   /\ bridge'[b].last_error = "send_position"
                   /\ bridge'[b].log = append_log(bridge[b].log, "send_position")
                   /\ bridge'[b].last_position = bridge[b].last_position
                   /\ wk'[t].pc = "L235"
             /\ (wk[t].pc = "L236" /\ Stepped(t)) =>
                   /\ bridge'[b].packets_ok = bridge[b].packets_ok + 1
                   /\ bridge'[b].packets_err = bridge[b].packets_err
                   /\ bridge'[b].last_packet_time = wk[t].now
                   /\ wk'[t].pc = "L124"]_vars

\* C7's case: the first datagram's send_position raised, the datagram was
\* counted both ways and the worker is receiving again
C7_Witness ==
    \E t \in Threads :
        /\ wk[t].pc = "L127"
        /\ sent = 1
        /\ bridge[wk[t].bridge].last_error = "send_position"
        /\ bridge[wk[t].bridge].packets_err = 1
        /\ bridge[wk[t].bridge].packets_ok = 1
        /\ bridge[wk[t].bridge].last_packet_time = 1

\* C8: the handling of every datagram that decodes as a JSON object ends with
\* packets_ok one higher and last_packet_time set to the datagram's time,
\* whatever tracker creation and the tracker call did.
C8_DecodedAlwaysCounted ==
    [][\A t \in Threads :
         (wk[t].data.json = "obj" /\ EndsPacket(t)) =>
            /\ bridge'[wk[t].bridge].packets_ok = bridge[wk[t].bridge].packets_ok + 1
            /\ bridge'[wk[t].bridge].last_packet_time = wk[t].now]_vars

\* the values under a position's keys
PosValues(pos) == <<pos.lat, pos.lon, pos.altitude>>

\* C9: a datagram without status leaves last_status as it was and a datagram
\* without position leaves every value of last_position as it was.
C9_AbsentFieldsKeepState ==
    [][\A t \in Threads :
         LET b == wk[t].bridge
             d == wk[t].data
         IN  (d.json = "obj" /\ Stepped(t)) =>
                /\ d.status = "None" => bridge'[b].last_status = bridge[b].last_status
                /\ d.position.kind = "none" =>
                      PosValues(bridge'[b].last_position) = PosValues(bridge[b].last_position)]_vars

\* the last line of a log
LastLine(log) == IF log = <<>> THEN "" ELSE log[Len(log)]

\* C10: a worker whose bind failed never has running true nor a bound socket;
\* it records "Bind failed" in last_error and as the last log line, closes its
\* socket and ends; none of its steps touches a caller; and start() on an
\* instance whose thread has ended creates a new worker that binds afresh.
C10_BindFailureIsTerminal ==
    /\ [](\A t \in Threads :
            LET b == wk[t].bridge
            IN  /\ wk[t].pc \in {"L117", "L118", "L121"} =>
                      (~bridge[b].running /\ wk[t].sock = "unbound")
                /\ wk[t].pc = "L121" =>
                      /\ bridge[b].last_error = "Bind failed"
                      /\ LastLine(bridge[b].log) = "Bind failed"
                /\ wk[t].pc = "done" => wk[t].sock = "closed")
    /\ [][\A t \in Threads :
            (wk[t].pc \in {"L117", "L118", "L121"} /\ Stepped(t)) =>
               /\ ui' = ui
               /\ wk'[t].pc \in {"L118", "L121", "done"}]_vars
    /\ [][\A c \in Callers :
            (ui[c].pc = "L65" /\ ~ThreadAlive(ui[c].self) /\ ui'[c] # ui[c]) =>
               ui'[c].pc = "L67"]_vars
    /\ [][\A c \in Callers :
            (ui[c].pc = "L68" /\ ui'[c] # ui[c]) =>
               \E t \in Threads :
                  /\ wk[t].pc = "unborn"
                  /\ wk'[t].pc = "L109" /\ wk'[t].sock = "none"
                  /\ wk'[t].bridge = ui[c].self
                  /\ bridge'[ui[c].self].thread = t]_vars

\* C10's case: an instance whose first worker failed to bind and ended has,
\* after a later start(), a second worker that is bound
C10_Witness ==
    \E t, n \in Threads :
        /\ wk[t].bridge = wk[n].bridge /\ t # n
        /\ wk[t].pc = "done" /\ wk[t].sock = "closed"
        /\ bridge[wk[t].bridge].last_error = "Bind failed"
        /\ wk[n].sock = "bound"
        /\ bridge[wk[n].bridge].running

\* start() has been entered on instance b while is_running() is false, and a
\* thread can still be created
StartEntered(b) ==
    \E c \in Callers :
        /\ ui[c].pc = "L65" /\ ui[c].self = b
        /\ ~bridge[b].running
        /\ NumThreads < MaxThreads

\* stop() is executing on instance b
StopEntered(b) ==
    \E c \in Callers : ui[c].self = b /\ ui[c].pc \in {"L72", "L73", "L74", "L75"}

\* C11: a start() entered while is_running() is false leads to the instance
\* running or to a recorded bind failure, unless stop() is called on it.
C11_StartLeadsToRunningOrBindFailed ==
    \A b \in Bridges :
        StartEntered(b) ~>
            \/ bridge[b].running
            \/ bridge[b].last_error = "Bind failed"
            \/ StopEntered(b)

\* the positions of a worker inside `while not self._stop_evt.is_set()`, L124-135,
\* _handle_packet included
LoopPcs ==
    {"L124", "L127", "L132", "L133", "L146", "L148", "L149", "L163", "L170", "L171",
     "L176", "L177", "L182", "L203", "L204", "L213", "L214", "L218", "L219", "L235", "L236"}

\* C12: a step of a worker that is in its receive loop keeps it in the loop with
\* its socket bound and leaves running as it was, whatever it received and
\* whatever was raised; the one exception is the loop test that finds the stop
\* event set.
C12_LoopLeftOnlyOnStop ==
    [][\A t \in Threads :
         (wk[t].pc \in LoopPcs /\ Stepped(t)) =>
            \/ /\ wk'[t].pc \in LoopPcs
               /\ wk'[t].sock = "bound"
               /\ bridge'[wk[t].bridge].running = bridge[wk[t].bridge].running
            \/ /\ wk[t].pc = "L124"
               /\ bridge[wk[t].bridge].stop_evt
               /\ wk'[t].pc = "L137"
               /\ bridge' = bridge]_vars

\* C12's case: two datagrams were counted as errors (a decode error, an
\* exception that left _handle_packet), no stop was requested and the worker is
\* receiving again on a running bridge
C12_Witness ==
    \E t \in Threads :
        /\ wk[t].pc = "L127" /\ wk[t].sock = "bound"
        /\ bridge[wk[t].bridge].packets_err = 2
        /\ bridge[wk[t].bridge].last_error = "ERR"
        /\ bridge[wk[t].bridge].running
        /\ ~bridge[wk[t].bridge].stop_evt

\* the lines the bridge writes to its log
LogLines ==
    {"listening", "Bind failed", "ERR", "stopped", "JSON decode error",
     "OK: no active PIREP", "send_position", "OK"}

\* the locked blocks that call _append_log
LoggingPcs == {"L114", "L118", "L133", "L140", "L149", "L177", "L214", "L236"}

\* C13: the log never holds more than the cap; every block that logs puts its
\* line at the end of the log and, when the cap is exceeded, drops the line at
\* the front; nothing else changes the log; and status_snapshot() returns the
\* log as it is at that moment.
C13_LogKeepsNewestLines ==
    /\ [](\A b \in Bridges : Len(bridge[b].log) <= max_log_lines)
    /\ [](\A c \in Callers : ui[c].snap.taken => Len(ui[c].snap.log) <= max_log_lines)
    /\ [][\A t \in Threads :
            (wk[t].pc \in LoggingPcs /\ Stepped(t)) =>
               \E line \in LogLines :
                  LET l == bridge[wk[t].bridge].log \o <<line>>
                  IN  bridge'[wk[t].bridge].log =
                         IF Len(l) <= max_log_lines THEN l ELSE Tail(l)]_vars
    /\ [][\A b \in Bridges :
            bridge'[b].log # bridge[b].log =>
               \E t \in Threads :
                  wk[t].bridge = b /\ wk[t].pc \in LoggingPcs /\ Stepped(t)]_vars
    /\ [][\A c \in Callers :
            (ui[c].pc = "idle" /\ ui'[c].pc = "snapshot") =>
               ui'[c].snap.log = bridge[cur].log]_vars

\* C13's case: a snapshot whose log is full, the first line logged ("listening")
\* evicted and the newest line ("stopped") at its end
C13_Witness ==
    \E c \in Callers :
        /\ ui[c].snap.taken
        /\ Len(ui[c].snap.log) = max_log_lines
        /\ ui[c].snap.log[1] # "listening"
        /\ ui[c].snap.log[max_log_lines] = "stopped"

\* C14: no step makes packets_ok or packets_err of an instance smaller, and a
\* step that is not a worker's (a step of start(), of stop() or of a snapshot
\* reader) leaves both as they were.
C14_CountersNeverDecrease ==
    [][\A b \in Bridges :
         /\ bridge'[b].packets_ok >= bridge[b].packets_ok
         /\ bridge'[b].packets_err >= bridge[b].packets_err
         /\ (\A t \in Threads : ~Stepped(t)) =>
               /\ bridge'[b].packets_ok = bridge[b].packets_ok
               /\ bridge'[b].packets_err = bridge[b].packets_err]_vars

\* C14's case: after a session that counted datagrams both ways and a stop(),
\* start() has cleared the stop event and is about to create the next worker,
\* and both counters still hold their values
C14_Witness ==
    \E c \in Callers :
        /\ ui[c].pc = "L68"
        /\ ~ThreadAlive(ui[c].self)
        /\ bridge[ui[c].self].thread # NoThread
        /\ bridge[ui[c].self].packets_ok >= 1
        /\ bridge[ui[c].self].packets_err >= 1

\* C15: when start() returns having created a worker, the session state of the
\* instance is that of a new instance: both counters 0, last_error,
\* last_status, last_position and last_packet_time empty, the log empty.
C15_StartBeginsFresh ==
    [][\A c \in Callers :
         (ui[c].pc = "L68" /\ ui'[c].pc = "idle") =>
            LET br == bridge'[ui[c].self]
            IN  /\ br.packets_ok = NewBridge.packets_ok
                /\ br.packets_err = NewBridge.packets_err
                /\ br.last_error = NewBridge.last_error
                /\ br.last_status = NewBridge.last_status
                /\ br.last_position = NewBridge.last_position
                /\ br.last_packet_time = NewBridge.last_packet_time
                /\ br.log = NewBridge.log]_vars

\* C16: when the handling of a datagram that carries a status and a fuel
\* reading, with a PIREP id resolved and its tracker obtained, ends with the
\* success accounting, a status update has been forwarded
\* to the tracker whose fuel_used is derived from the baseline: never negative,
\* never the raw reading, and 0 for the first reading of the session.
C16_FuelUsedFromBaseline ==
    [][\A t \in Threads :
         (/\ wk[t].data.json = "obj" /\ wk[t].data.status # "None"
          /\ wk[t].data.fuel # NoFuel /\ wk[t].pirep_id # NoneInt
          /\ wk[t].pc = "L236" /\ EndsPacket(t)) =>
            \E call \in wk[t].calls :
               /\ call.op = "update_phase"
               /\ call.fuel_used >= 0
               /\ call.fuel_used # wk[t].data.fuel
               /\ wk[t].now = 1 => call.fuel_used = 0]_vars

\* C17: a caller that has entered stop() leaves it, also when the worker never
\* comes back from its upstream call; and it leaves it with running false.
C17_StopAlwaysReturns ==
    /\ \A c \in Callers :
          (ui[c].pc \in {"L72", "L73", "L74", "L75"}) ~> (ui[c].pc \notin {"L72", "L73", "L74", "L75"})
    /\ [][\A c \in Callers : StopReturns(c) => ~bridge'[ui[c].self].running]_vars

\* C17's case: stop() has returned while the worker is still inside its
\* upstream call
C17_Witness ==
    \E t \in Threads :
        /\ InUpstreamCall(t)
        /\ bridge[wk[t].bridge].stop_evt
        /\ ~bridge[wk[t].bridge].running
        /\ \A c \in Callers : ui[c].pc = "idle"

\* C18: every step of the handling of a datagram that does not decode leaves
\* the instance as it was except for packets_err, last_error and the log (and
\* the lock it takes and releases), makes no call out of the bridge, and goes
\* nowhere but to the decode-error block and back to the loop; the handling
\* ends with packets_err one higher, the decode error in last_error and one
\* more log line.
C18_DecodeFailureFrame ==
    [][\A t \in Threads :
         (wk[t].data.json = "bad" /\ Stepped(t)) =>
            LET b == wk[t].bridge
            IN  /\ [bridge'[b] EXCEPT !.packets_err = bridge[b].packets_err,
                                      !.last_error = bridge[b].last_error,
                                      !.log = bridge[b].log,
                                      !.lock = bridge[b].lock] = bridge[b]
                /\ wk'[t].calls = {}
                /\ wk'[t].pc \in {"L148", "L149", "L124"}
                /\ EndsPacket(t) =>
                      /\ bridge'[b].packets_err = bridge[b].packets_err + 1
                      /\ bridge'[b].last_error = "JSON decode error"
                      /\ bridge'[b].log = append_log(bridge[b].log, "JSON decode error")]_vars

\* C18's case: a datagram that stored a status and a position was counted,
\* then one that does not decode was handled
C18_Witness ==
    \E t \in Threads :
        LET br == bridge[wk[t].bridge]
        IN  /\ wk[t].pc = "L124" /\ sent = 2
            /\ br.last_error = "JSON decode error"
            /\ br.packets_err = 1 /\ br.packets_ok = 1
            /\ br.last_status = "ENR"
            /\ br.last_packet_time = 1

\* the keys of a position
PosKeys == {"lat", "lon", "altitude"}

\* C19: a step of the handling of a datagram whose position object lacks some
\* keys leaves last_position as it was under every key the datagram lacks.
C19_PositionFieldsMerged ==
    [][\A t \in Threads :
         (wk[t].data.position.kind = "dict" /\ Stepped(t)) =>
            \A k \in PosKeys :
               wk[t].data.position[k] = NoneInt =>
                  bridge'[wk[t].bridge].last_position[k] = bridge[wk[t].bridge].last_position[k]]_vars

\* the worker is at a call out of the bridge: the provider (L163), the
\* tracker constructor (L182, L249), tracker.send_position (L204)
InExternalCall(t) == wk[t].pc \in {"L163", "L182", "L204"}

\* the bodies of the worker's `with self._lock:` blocks
LockedPcs == {LockedBody[pc] : pc \in AcquirePcs}

\* C20: the lock of an instance is held only by a worker inside one of its
\* locked blocks, never by one that is at an external call; while the only
\* live worker of the instance is at an external call the lock is free, so that
\* a status_snapshot() of an idle caller can be taken.
C20_NoLockAcrossExternalCalls ==
    /\ \A b \in Bridges :
          bridge[b].lock # Free =>
             /\ wk[bridge[b].lock].bridge = b
             /\ wk[bridge[b].lock].pc \in LockedPcs
    /\ \A t \in Threads :
          InExternalCall(t) =>
             /\ bridge[wk[t].bridge].lock # t
             /\ AliveWorkers(wk[t].bridge) = {t} =>
                   /\ bridge[wk[t].bridge].lock = Free
                   /\ (cur = wk[t].bridge /\ ui["ui"].pc = "idle") => ENABLED StatusSnapshot("ui")

\* C20's case: the caller holds a snapshot of the running instance while the
\* worker is inside tracker.send_position
C20_Witness ==
    \E t \in Threads :
        /\ InUpstreamCall(t)
        /\ ui["ui"].pc = "snapshot" /\ ui["ui"].self = wk[t].bridge
        /\ ui["ui"].snap.running
        /\ bridge[wk[t].bridge].lock = Free

\* the positions of a worker that has left its loop
ExitPcs == {"L137", "L139", "L140", "done"}

\* C21, as claimed: once stop() has set the event, the worker receives no
\* further datagram.
C21_NoReceiveAfterStop ==
    [][\A t \in Threads :
         (wk[t].pc = "L127" /\ wk'[t].pc = "L146") => ~bridge[wk[t].bridge].stop_evt]_vars

\* C21, amended: a worker whose instance has the stop event set ends with its
\* socket closed, setting running false as its last step; a receive is entered
\* only from a loop test that found the event clear, the loop test that finds it
\* set leaves the loop for good, and the event stays set while the worker
\* lives: so after the request the worker handles at most one datagram, the one
\* in hand or the one that arrives while it is already waiting in receive.
C21_StopObservedAtLoopTest ==
    /\ \A t \in Threads :
          (is_alive(t) /\ bridge[wk[t].bridge].stop_evt) ~>
             (wk[t].pc = "done" /\ wk[t].sock = "closed")
    /\ [][\A t \in Threads :
            LET b == wk[t].bridge
            IN  /\ (wk'[t].pc = "L127" /\ Stepped(t)) =>
                      (wk[t].pc = "L124" /\ ~bridge[b].stop_evt)
                /\ (wk[t].pc = "L124" /\ bridge[b].stop_evt /\ Stepped(t)) =>
                      wk'[t].pc = "L137"
                /\ wk[t].pc \in ExitPcs => wk'[t].pc \in ExitPcs
                /\ (wk[t].pc = "L140" /\ Stepped(t)) =>
                      (wk'[t].pc = "done" /\ ~bridge'[b].running /\ wk[t].sock = "closed")
                /\ (is_alive(t) /\ wk'[t].pc # "done" /\ bridge[b].stop_evt) =>
                      bridge'[b].stop_evt]_vars

\* C21's case: the stop event is set, stop() is joining, and the worker has
\* just received a datagram
C21_Witness ==
    \E t \in Threads :
        /\ wk[t].pc = "L146" /\ wk[t].now = sent
        /\ bridge[wk[t].bridge].stop_evt
        /\ bridge[wk[t].bridge].running
        /\ ui["ui"].pc = "L74"

\* the workers of instance b that hold a datagram
Handling(b) == {t \in Threads : wk[t].bridge = b /\ wk[t].data # NoData}

NoPirepPcs == {"L170", "L171", "L176", "L177"}

\* C23: a datagram for which neither the payload nor the provider gives an
\* integer PIREP id goes through the branch for no PIREP id; while the worker is
\* in it packets_err, the trackers and last_pirep_id do not change and no call
\* but the one to the provider has been made for the datagram; packets_ok changes
\* only with the step that ends the datagram, by exactly 1.
C23_NoPirepCountsOkOnly ==
    [][\A t \in Threads :
         LET b == wk[t].bridge
         IN  /\ (wk[t].pc = "L163" /\ Stepped(t) /\ wk'[t].pirep_id = NoneInt) =>
                   wk'[t].pc = "L170"
             /\ wk[t].pc \in NoPirepPcs =>
                   /\ wk[t].pirep_id = NoneInt
                   /\ wk[t].calls \subseteq {ExternalCall("pirep_id_provider")}
                   /\ wk'[t].calls \subseteq wk[t].calls
                   /\ bridge'[b].packets_err = bridge[b].packets_err
                   /\ bridge'[b].trackers = bridge[b].trackers
                   /\ bridge'[b].last_pirep_id = bridge[b].last_pirep_id
                   /\ bridge'[b].packets_ok =
                         IF EndsPacket(t) THEN bridge[b].packets_ok + 1 ELSE bridge[b].packets_ok
                   /\ Stepped(t) => (EndsPacket(t) <=> wk[t].pc = "L177")]_vars

\* C23's case: a datagram without a PIREP id has been counted after the provider
\* raised or gave none, while an earlier datagram had set last_pirep_id
C23_Witness ==
    \E t \in Threads :
        LET b == wk[t].bridge
        IN  /\ wk[t].pc = "L124" /\ bridge[b].packets_ok = 2 /\ bridge[b].packets_err = 0
            /\ bridge[b].last_pirep_id # NoneInt
            /\ LastLine(bridge[b].log) = "OK: no active PIREP"

\* the started operations that have not delivered their result
Undelivered == {k \in Workers : win.workers[k].state = "running"}

\* C24, as claimed: _inflight_ops is never negative, and the progress bar is
\* visible exactly when some started operation has not yet delivered its result.
C24_ProgressIsRefCount ==
    /\ win.inflight_ops >= 0
    /\ win.progress_visible <=> Undelivered # {}

C26_AtMostOneWorkerAlive ==
    \A b \in Bridges : Cardinality(AliveWorkers(b)) <= 1

\* worker t is alive and its bind() has succeeded (L111)
HasBound(t) == is_alive(t) /\ wk[t].pc \notin {"L109", "L117", "L118", "L121"}

\* C27: in every state an instance with running = true has a live worker whose
\* bind succeeded; an instance none of whose workers is alive has running = false.
C27_RunningImpliesBoundWorker ==
    \A b \in Bridges :
        /\ bridge[b].running => \E t \in AliveWorkers(b) : HasBound(t)
        /\ AliveWorkers(b) = {} => ~bridge[b].running

\* C27's case: running is still true while the worker, having left its loop and
\* closed its socket, is about to clear it
C27_Witness ==
    \E b \in Bridges, t \in Threads :
        /\ bridge[b].running /\ wk[t].bridge = b
        /\ wk[t].pc = "L140" /\ wk[t].sock = "closed"

\* the positions of a worker from the except clause of the position update to
\* the end of the datagram
AfterSendErrorPcs == {"L213", "L214", "L235", "L236"}

\* C28: a datagram whose send_position raised, or whose position has no lat or
\* lon, goes through the except clause to the success accounting and leaves
\* last_position as it was; last_position changes only in the step after a
\* send_position that returned, to the position of that datagram, or in the
\* branch for no PIREP id, to what that datagram gave as position.
C28_FailedSendKeepsLastPosition ==
    [][\A t \in Threads :
         LET b == wk[t].bridge
         IN  /\ (/\ wk[t].pc = "L203" /\ Stepped(t)
                 /\ NoneInt \in {wk[t].data.position.lat, wk[t].data.position.lon}) =>
                   wk'[t].pc = "L213"
             /\ (wk[t].pc = "L204" /\ Stepped(t)) =>
                   /\ wk'[t].pc \in {"L213", "L218"}
                   /\ ExternalCall("send_position") \in wk'[t].calls
             /\ wk[t].pc \in AfterSendErrorPcs =>
                   /\ bridge'[b].last_position = bridge[b].last_position
                   /\ wk'[t].pc \in AfterSendErrorPcs \cup {"L124"}
             /\ (is_alive(t) /\ bridge'[b].last_position # bridge[b].last_position) =>
                   /\ bridge'[b].last_position = StoredPosition(wk[t].data.position)
                   /\ \/ wk[t].pc = "L219" /\ ExternalCall("send_position") \in wk[t].calls
                      \/ wk[t].pc = "L171" /\ wk[t].pirep_id = NoneInt
             /\ (wk'[t].pc = "L219" /\ Stepped(t)) => wk[t].pc = "L218"
             /\ (wk'[t].pc = "L218" /\ Stepped(t)) => wk[t].pc = "L204"]_vars

\* C28's case: send_position has raised for a datagram whose position differs
\* from the one an earlier datagram left in last_position
C28_Witness ==
    \E t \in Threads :
        LET b == wk[t].bridge
        IN  /\ wk[t].pc = "L236" /\ bridge[b].last_error = "send_position"
            /\ ExternalCall("send_position") \in wk[t].calls
            /\ bridge[b].last_position.kind = "dict"
            /\ bridge[b].last_position # StoredPosition(wk[t].data.position)

\* the locked blocks that count an error
ErrorPcs == {"L133", "L149", "L214"}

\* C29: packets_err changes only by 1, in a step of a worker that holds the
\* lock inside one of the three error blocks, and that same step sets last_error
\* and puts exactly one line at the end of the log; last_error, once set, is
\* never cleared; so in every state and in every snapshot packets_err > 0
\* implies that last_error is set.
C29_ErrorCountedWithLastError ==
    /\ [](\A b \in Bridges : bridge[b].packets_err > 0 => bridge[b].last_error # "None")
    /\ [](\A c \in Callers :
            (ui[c].snap.taken /\ ui[c].snap.packets_err > 0) => ui[c].snap.last_error # "None")
    /\ [][\A b \in Bridges :
            /\ bridge[b].last_error # "None" => bridge'[b].last_error # "None"
            /\ bridge'[b].packets_err # bridge[b].packets_err =>
                  /\ bridge'[b].packets_err = bridge[b].packets_err + 1
                  /\ bridge'[b].last_error # "None"
                  /\ bridge'[b].log = append_log(bridge[b].log, LastLine(bridge'[b].log))
                  /\ \E t \in Threads :
                        /\ wk[t].bridge = b /\ wk[t].pc \in ErrorPcs /\ Stepped(t)
                        /\ bridge[b].lock = t /\ bridge'[b].lock = Free]_vars

\* C29's case: a snapshot taken after an error and a later successful datagram
\* still shows the error
C29_Witness ==
    \E c \in Callers :
        /\ ui[c].snap.taken
        /\ ui[c].snap.packets_err > 0 /\ ui[c].snap.packets_ok > 0
        /\ ui[c].snap.last_error = "JSON decode error"
        /\ LastLine(ui[c].snap.log) = "OK: no active PIREP"

====
